---- MODULE Spec2Model ----
(***************************************************************************)
(* d2q9-bgk lattice Boltzmann code (src/d2q9-bgk.c), MPI port in progress. *)
(*                                                                         *)
(* Every MPI rank runs main(): initialise, then maxIters iterations of     *)
(* timestep (accelerate_flow, propagate, rebound, collision) followed by   *)
(* av_velocity, then write_values and finalise.  The ranks share no memory *)
(* and the source contains no message passing call besides MPI_Init,       *)
(* MPI_Comm_size, MPI_Comm_rank and MPI_Finalize.                          *)
(*                                                                         *)
(* float is modelled as a finite-precision number <<n, d>> = n/d in lowest  *)
(* terms with |n| and d below 2^15: the result of an operation is kept     *)
(* exact when it has such a form and is otherwise rounded to the nearest   *)
(* binary fraction with a 15-bit significand (IEEE single precision has a  *)
(* 24-bit one).  A result too large for the format, and a division by      *)
(* zero, give NaN = <<0, 0>>, which stands for every non-finite value and  *)
(* is absorbing (IEEE-754 gives inf or NaN; every use the code makes of    *)
(* such a quotient ends in 0*inf, inf-inf or a stored non-finite value).   *)
(***************************************************************************)
EXTENDS Integers, Sequences, FiniteSets, TLC

(***************************************************************************)
(* Arithmetic of float                                                     *)
(***************************************************************************)
Abs(n) == IF n < 0 THEN -n ELSE n

RECURSIVE GCD(_, _)
GCD(a, b) == IF b = 0 THEN a ELSE GCD(b, a % b)

NaN == <<0, 0>>

IsNaN(x) == x[2] = 0

FloatMax == 2^15 - 1

\* n/d in lowest terms with a positive denominator, g the gcd of n and d
NormBy(n, d, g) == IF d < 0 THEN <<-(n \div g), -(d \div g)>> ELSE <<n \div g, d \div g>>

Norm(n, d) == IF d = 0 THEN NaN ELSE NormBy(n, d, GCD(Abs(n), Abs(d)))

\* the largest k <= 14 with (q + 1) * 2^k <= 2^15
RECURSIVE ScaleOf(_, _)
ScaleOf(q, k) == IF k = 0 \/ (q + 1) * (2^k) <= FloatMax + 1 THEN k ELSE ScaleOf(q, k - 1)

\* floor(r * 2^k / d) and the remainder, for 0 <= r < d
RECURSIVE FracBits(_, _, _, _)
FracBits(r, d, k, acc) ==
  IF k = 0 THEN <<acc, r>>
  ELSE IF 2 * r >= d THEN FracBits(2 * r - d, d, k - 1, 2 * acc + 1)
       ELSE FracBits(2 * r, d, k - 1, 2 * acc)

\* a value whose numerator does not fit is not finite
Finite(y) == IF Abs(y[1]) > FloatMax THEN NaN ELSE y

\* x, in lowest terms, rounded to k fraction bits; fb = FracBits of its fraction
RoundBits(x, k, fb) ==
  Finite(Norm((IF x[1] < 0 THEN -1 ELSE 1)
                * ((Abs(x[1]) \div x[2]) * (2^k) + fb[1]
                     + (IF 2 * fb[2] >= x[2] THEN 1 ELSE 0)),
              2^k))

RoundTo(x, k) == RoundBits(x, k, FracBits(Abs(x[1]) % x[2], x[2], k, 0))

RoundNorm(x) ==
  IF Abs(x[1]) <= FloatMax /\ x[2] <= FloatMax THEN x
  ELSE IF Abs(x[1]) \div x[2] > FloatMax THEN NaN
  ELSE RoundTo(x, ScaleOf(Abs(x[1]) \div x[2], 14))

\* n/d as a float: exact if representable, else rounded to nearest
Round(n, d) == RoundNorm(Norm(n, d))

Rat(n, d) == Round(n, d)

Zero == <<0, 1>>

One == <<1, 1>>

\* x + y over the least common denominator, g the gcd of the denominators
AddBy(x, y, g) ==
  Round(x[1] * (y[2] \div g) + y[1] * (x[2] \div g), (x[2] \div g) * y[2])

FAdd(x, y) == IF IsNaN(x) \/ IsNaN(y) THEN NaN ELSE AddBy(x, y, GCD(x[2], y[2]))

FNeg(x) == IF IsNaN(x) THEN NaN ELSE <<-x[1], x[2]>>

FSub(x, y) == FAdd(x, FNeg(y))

\* x * y, cancelled crosswise first: g1 = gcd(x[1], y[2]), g2 = gcd(y[1], x[2])
MulBy(x, y, g1, g2) ==
  Round((x[1] \div g1) * (y[1] \div g2), (x[2] \div g2) * (y[2] \div g1))

FMul(x, y) ==
  IF IsNaN(x) \/ IsNaN(y) THEN NaN
  ELSE MulBy(x, y, GCD(Abs(x[1]), y[2]), GCD(Abs(y[1]), x[2]))

FDiv(x, y) ==
  IF IsNaN(x) \/ IsNaN(y) \/ y[1] = 0 THEN NaN
  ELSE FMul(x, IF y[1] < 0 THEN <<-y[2], -y[1]>> ELSE <<y[2], y[1]>>)

\* x > 0.f ; any comparison with NaN is false
FGtZero(x) == ~IsNaN(x) /\ x[1] > 0

\* integer square root by bisection; 46340 is the largest root of an int
RECURSIVE IsqrtBetween(_, _, _)
IsqrtBetween(n, lo, hi) ==
  IF lo >= hi THEN lo
  ELSE LET mid == (lo + hi + 1) \div 2
       IN  IF mid * mid <= n THEN IsqrtBetween(n, mid, hi)
           ELSE IsqrtBetween(n, lo, mid - 1)

Isqrt(n) == IsqrtBetween(n, 0, 46340)

IsSquare(n) == n >= 0 /\ Isqrt(n) * Isqrt(n) = n

(***************************************************************************)
(* Types and memory (lines 73-94, 446-492)                                 *)
(*                                                                         *)
(* A t_speed is a function 0..8 -> float.  An array obtained from malloc   *)
(* is a function over a range of indices: 0..len-1 is the allocation, and  *)
(* the range also covers every index the kernel loops compute outside the  *)
(* allocation (memory next to it, holding whatever the heap holds).        *)
(* Memory that malloc returns is not initialised: its content is the value *)
(* the rank's heap happens to hold (heap).                              *)
(***************************************************************************)
NSPEEDS == 9

Speeds == 0 .. (NSPEEDS - 1)

MASTER == 0

FINALSTATEFILE == "final_state.dat"

AVVELSFILE == "av_vels.dat"

Min(a, b) == IF a < b THEN a ELSE b

Max(a, b) == IF a > b THEN a ELSE b

\* local_ny = params->ny / size  (line 447)
LocalNy(p, sz) == p.ny \div sz

\* (local_ny + 2) * params->nx cells in each grid (lines 460, 467)
CellsLen(p, sz) == (LocalNy(p, sz) + 2) * p.nx

\* local_ny * params->nx flags in the local mask (line 479)
ObstaclesLen(p, sz) == LocalNy(p, sz) * p.nx

\* params->ny * params->nx flags in the total mask (line 473)
ObstaclesTotalLen(p) == p.ny * p.nx

\* Lowest and highest index computed by the kernel: accelerate_flow uses row
\* ny - 2, the other loops rows 0 .. ny-1, each with columns 0 .. nx-1.
KernelLo(p) == Min(0, (p.ny - 2) * p.nx)

KernelHi(p) == p.ny * p.nx - 1

MemDom(p, len) == KernelLo(p) .. Max(len - 1, KernelHi(p))

Allocated(len) == 0 .. (len - 1)

JunkCell(h) == [kk \in Speeds |-> h.f]

(***************************************************************************)
(* The kernel (lines 677-928).  Every function is an operator from the     *)
(* arrays it is passed to the array it writes.  The loops of propagate,    *)
(* rebound, collision and av_velocity run jj over 0 .. params.ny-1 and ii  *)
(* over 0 .. params.nx-1 and index every array with ii + jj*params.nx.     *)
(***************************************************************************)
KernelCells(p) == 0 .. (p.ny * p.nx - 1)

\* accelerate_flow, lines 686-716
AccelW1(p) == FDiv(FMul(p.density, p.accel), Rat(9, 1))

AccelW2(p) == FDiv(FMul(p.density, p.accel), Rat(36, 1))

AccelRow(p) == p.ny - 2

AccelCells(p) == {ii + AccelRow(p) * p.nx : ii \in 0 .. (p.nx - 1)}

AccelGuard(p, cells, obstacles, idx) ==
  /\ obstacles[idx] = 0
  /\ FGtZero(FSub(cells[idx][3], AccelW1(p)))
  /\ FGtZero(FSub(cells[idx][6], AccelW2(p)))
  /\ FGtZero(FSub(cells[idx][7], AccelW2(p)))

\* an acceleration that adds to the east-bound speeds and takes nothing from
\* the west-bound ones
AccelCellEastOnly(p, c) ==
  [c EXCEPT ![1] = FAdd(@, AccelW1(p)),
            ![5] = FAdd(@, AccelW2(p)),
            ![8] = FAdd(@, AccelW2(p))]

\* lines 704-711
AccelCell(p, c) ==
  [c EXCEPT ![1] = FAdd(@, AccelW1(p)),
            ![5] = FAdd(@, AccelW2(p)),
            ![8] = FAdd(@, AccelW2(p)),
            ![3] = FSub(@, AccelW1(p)),
            ![6] = FSub(@, AccelW2(p)),
            ![7] = FSub(@, AccelW2(p))]

AccelerateFlow(p, cells, obstacles) ==
  [idx \in DOMAIN cells |->
     IF idx \in AccelCells(p) /\ AccelGuard(p, cells, obstacles, idx)
     THEN AccelCell(p, cells[idx])
     ELSE cells[idx]]

\* propagate, lines 718-747
PropagateCell(p, cells, idx) ==
  LET ii  == idx % p.nx
      jj  == idx \div p.nx
      y_n == (jj + 1) % p.ny
      x_e == (ii + 1) % p.nx
      y_s == IF jj = 0 THEN jj + p.ny - 1 ELSE jj - 1
      x_w == IF ii = 0 THEN ii + p.nx - 1 ELSE ii - 1
  IN  [kk \in Speeds |->
         CASE kk = 0 -> cells[ii  + jj  * p.nx][0]
           [] kk = 1 -> cells[x_w + jj  * p.nx][1]
           [] kk = 2 -> cells[ii  + y_s * p.nx][2]
           [] kk = 3 -> cells[x_e + jj  * p.nx][3]
           [] kk = 4 -> cells[ii  + y_n * p.nx][4]
           [] kk = 5 -> cells[x_w + y_s * p.nx][5]
           [] kk = 6 -> cells[x_e + y_s * p.nx][6]
           [] kk = 7 -> cells[x_e + y_n * p.nx][7]
           [] kk = 8 -> cells[x_w + y_n * p.nx][8]]

Propagate(p, cells, tmp_cells) ==
  [idx \in DOMAIN tmp_cells |->
     IF idx \in KernelCells(p) THEN PropagateCell(p, cells, idx) ELSE tmp_cells[idx]]

\* rebound, lines 749-774
\* a rebound that copies the scratch populations without mirroring them
ReboundCellCopy(c, t) ==
  [c EXCEPT ![1] = t[1], ![2] = t[2], ![3] = t[3], ![4] = t[4],
            ![5] = t[5], ![6] = t[6], ![7] = t[7], ![8] = t[8]]

ReboundCell(c, t) ==
  [c EXCEPT ![1] = t[3], ![2] = t[4], ![3] = t[1], ![4] = t[2],
            ![5] = t[7], ![6] = t[8], ![7] = t[5], ![8] = t[6]]

Rebound(p, cells, tmp_cells, obstacles) ==
  [idx \in DOMAIN cells |->
     IF idx \in KernelCells(p) /\ obstacles[idx] # 0
     THEN ReboundCell(cells[idx], tmp_cells[idx])
     ELSE cells[idx]]

\* local density total: the kk loop of lines 795-800, 896-901, 938-941
\* (a sum that has become NaN stays NaN)
RECURSIVE AddSpeeds(_, _, _)
AddSpeeds(total, c, kk) ==
  IF kk = NSPEEDS \/ IsNaN(total) THEN total ELSE AddSpeeds(FAdd(total, c[kk]), c, kk + 1)

LocalDensity(c) == AddSpeeds(Zero, c, 0)

\* x and y velocity components, lines 803-817 and 904-918
VelX(c) == FDiv(FSub(FAdd(FAdd(c[1], c[5]), c[8]), FAdd(FAdd(c[3], c[6]), c[7])),
                LocalDensity(c))

VelY(c) == FDiv(FSub(FAdd(FAdd(c[2], c[5]), c[6]), FAdd(FAdd(c[4], c[7]), c[8])),
                LocalDensity(c))

\* collision, lines 776-877
C_SQ == Rat(1, 3)

W0 == Rat(4, 9)

W1 == Rat(1, 9)

W2 == Rat(1, 36)

Two == Rat(2, 1)

DirVel(u_x, u_y, kk) ==
  CASE kk = 1 -> u_x
    [] kk = 2 -> u_y
    [] kk = 3 -> FNeg(u_x)
    [] kk = 4 -> FNeg(u_y)
    [] kk = 5 -> FAdd(u_x, u_y)
    [] kk = 6 -> FAdd(FNeg(u_x), u_y)
    [] kk = 7 -> FSub(FNeg(u_x), u_y)
    [] kk = 8 -> FSub(u_x, u_y)

Weight(kk) == IF kk = 0 THEN W0 ELSE IF kk <= 4 THEN W1 ELSE W2

\* d_equ[kk] for kk > 0, u = u[kk]
DEquDir(local_density, u, u_sq, kk) ==
  FMul(FMul(Weight(kk), local_density),
       FSub(FAdd(FAdd(One, FDiv(u, C_SQ)),
                 FDiv(FMul(u, u), FMul(FMul(Two, C_SQ), C_SQ))),
            FDiv(u_sq, FMul(Two, C_SQ))))

DEqu(local_density, u_x, u_y, u_sq, kk) ==
  IF kk = 0
  THEN FMul(FMul(W0, local_density), FSub(One, FDiv(u_sq, FMul(Two, C_SQ))))
  ELSE DEquDir(local_density, DirVel(u_x, u_y, kk), u_sq, kk)

\* u_sq = u_x * u_x + u_y * u_y  (lines 820, 920)
USq(u_x, u_y) == FAdd(FMul(u_x, u_x), FMul(u_y, u_y))

\* the relaxation step, lines 865-871
Relax(p, t, local_density, u_x, u_y) ==
  [kk \in Speeds |->
     FAdd(t[kk], FMul(p.omega,
                      FSub(DEqu(local_density, u_x, u_y, USq(u_x, u_y), kk), t[kk])))]

CollideCell(p, t) == Relax(p, t, LocalDensity(t), VelX(t), VelY(t))

Collision(p, cells, tmp_cells, obstacles) ==
  [idx \in DOMAIN cells |->
     IF idx \in KernelCells(p) /\ obstacles[idx] = 0
     THEN CollideCell(p, tmp_cells[idx])
     ELSE cells[idx]]

\* total_density, lines 930-946
RECURSIVE TotalDensityFrom(_, _, _, _)
TotalDensityFrom(p, cells, idx, total) ==
  IF idx > KernelHi(p) \/ IsNaN(total) THEN total
  ELSE TotalDensityFrom(p, cells, idx + 1, AddSpeeds(total, cells[idx], 0))

TotalDensity(p, cells) == TotalDensityFrom(p, cells, 0, Zero)

(***************************************************************************)
(* av_velocity, lines 879-928.  tot_u is a sum of square roots; it is kept *)
(* exact as the rational part (roots of perfect squares) plus the bag of   *)
(* the remaining radicands, and the value returned is tot_u / tot_cells.   *)
(* A NaN radicand or tot_cells = 0 gives NaN (non-finite).                 *)
(***************************************************************************)
VelSq(c) == USq(VelX(c), VelY(c))

NoRoots == [q \in {} |-> 0]

AddRoot(tot, q) ==
  IF IsNaN(q) \/ tot.nan THEN [tot EXCEPT !.nan = TRUE]
  ELSE IF IsSquare(q[1]) /\ IsSquare(q[2])
       THEN [tot EXCEPT !.rat = FAdd(@, Rat(Isqrt(q[1]), Isqrt(q[2])))]
       ELSE [tot EXCEPT !.roots = IF q \in DOMAIN @
                                  THEN [@ EXCEPT ![q] = @ + 1]
                                  ELSE @ @@ (q :> 1)]

RECURSIVE AvLoop(_, _, _, _, _)
AvLoop(p, cells, obstacles, idx, acc) ==
  IF idx > KernelHi(p) THEN acc
  ELSE AvLoop(p, cells, obstacles, idx + 1,
              IF obstacles[idx] = 0
              THEN [tot_u |-> AddRoot(acc.tot_u, VelSq(cells[idx])),
                    tot_cells |-> acc.tot_cells + 1]
              ELSE acc)

AvNaN == [nan |-> TRUE, rat |-> Zero, roots |-> NoRoots, cnt |-> 0]

AvZero(n) == [nan |-> FALSE, rat |-> Zero, roots |-> NoRoots, cnt |-> n]

\* line 927: tot_u / (float)tot_cells
AvResult(acc) ==
  IF acc.tot_u.nan \/ acc.tot_cells = 0 THEN AvNaN
  ELSE [nan |-> FALSE, rat |-> acc.tot_u.rat, roots |-> acc.tot_u.roots,
        cnt |-> acc.tot_cells]

AvVelocity(p, cells, obstacles) ==
  AvResult(AvLoop(p, cells, obstacles, 0,
                  [tot_u |-> [nan |-> FALSE, rat |-> Zero, roots |-> NoRoots],
                   tot_cells |-> 0]))

(***************************************************************************)
(* Inputs: the number of ranks of the job, the parameter file, the         *)
(* obstacle file (one record per fscanf of "%d %d %d\n": the value fscanf  *)
(* returns and the three values scanned) and the content of each rank's    *)
(* heap.                                                                   *)
(***************************************************************************)
MaxIters == 3

MaxLines == 2

\* the jobs explored, <<size, nx, ny>>: a single cell, a column of two cells
\* and a 3 x 3 grid on one rank, and columns of 2, 3 and 4 cells on two ranks
Jobs == {<<1, 1, 1>>, <<1, 1, 2>>, <<1, 3, 3>>,
         <<2, 1, 2>>, <<2, 1, 3>>, <<2, 1, 4>>}

Sizes == {j[1] : j \in Jobs}

Densities == {Rat(36, 1)}

Accels == {Zero, Rat(1, 4)}

Omegas == {One}

ReadableParamFiles(sz) ==
  {[readable |-> TRUE, nx |-> j[2], ny |-> j[3], maxIters |-> n,
    density |-> d, accel |-> a, omega |-> o] :
     j \in {k \in Jobs : k[1] = sz}, n \in {0, 1, MaxIters},
     d \in Densities, a \in Accels, o \in Omegas}

\* a parameter file that cannot be opened, or one of whose fscanf calls fails
UnreadableParamFile ==
  [readable |-> FALSE, nx |-> 1, ny |-> 1, maxIters |-> 0,
   density |-> One, accel |-> Zero, omega |-> One]

ParamFiles(sz) == ReadableParamFiles(sz) \cup {UnreadableParamFile}

\* lines of the obstacle file: the cells of the last column, and one line for
\* each way a line can be wrong
GoodLines(p) == [retval : {3}, xx : {p.nx - 1}, yy : 0 .. (p.ny - 1), blocked : {1}]

BadLines(p) ==
  {[retval |-> 2, xx |-> 0, yy |-> 0, blocked |-> 1],
   [retval |-> 0, xx |-> 0, yy |-> 0, blocked |-> 1],
   [retval |-> 3, xx |-> -1, yy |-> 0, blocked |-> 1],
   [retval |-> 3, xx |-> p.nx, yy |-> 0, blocked |-> 1],
   [retval |-> 3, xx |-> 0, yy |-> -1, blocked |-> 1],
   [retval |-> 3, xx |-> 0, yy |-> p.ny, blocked |-> 1],
   [retval |-> 3, xx |-> 0, yy |-> 0, blocked |-> 0],
   [retval |-> 3, xx |-> 0, yy |-> 0, blocked |-> 2]}

ObstacleLines(p) == GoodLines(p) \cup BadLines(p)

\* the files explored: at most MaxLines lines; good lines in increasing row
\* order, then possibly one bad line (the lines after it are never read)
RECURSIVE GoodFiles(_, _)
GoodFiles(p, n) ==
  IF n = 0 THEN {<<>>}
  ELSE LET T == GoodFiles(p, n - 1)
       IN  T \cup {Append(t, l) : t \in {u \in T : Len(u) = n - 1}, l \in GoodLines(p)}

ObstacleFiles(p) ==
  LET good == {f \in GoodFiles(p, MaxLines) :
                 \A i \in 1 .. (Len(f) - 1) : f[i].yy < f[i + 1].yy}
  IN  good \cup {Append(f, b) : f \in {g \in good : Len(g) < MaxLines}, b \in BadLines(p)}

\* a heap of zero pages, and a heap that holds what earlier blocks left
HeapFills == {[f |-> Zero, o |-> 0], [f |-> Rat(2, 1), o |-> 1]}

VARIABLES
  size,             \* MPI_Comm_size
  paramfile,        \* content of the parameter file
  obstaclefile,     \* content of the obstacle file
  heap,             \* what the uninitialised memory of the ranks holds
  pc,               \* pc[r]: the call rank r makes next
  tt,               \* loop counter of main
  cells,            \* cells[r]: main grid
  tmp_cells,        \* tmp_cells[r]: scratch grid
  obstacles_total,  \* obstacles_total[r]: mask of the whole grid
  obstacles,        \* obstacles[r]: local mask
  av_vels,          \* av_vels[r]: record of the average velocities
  files,            \* the two output files
  trace             \* trace[r]: the calls rank r has completed, in order

vars == <<size, paramfile, obstaclefile, heap, pc, tt, cells, tmp_cells,
          obstacles_total, obstacles, av_vels, files, trace>>

Ranks == 0 .. (size - 1)

params == paramfile

NULL == <<>>

\* lines 504-536: rows 1 .. local_ny are set, nothing else is
InitialCells(p, sz, h) ==
  LET w0 == FDiv(FMul(p.density, Rat(4, 1)), Rat(9, 1))
      w1 == FDiv(p.density, Rat(9, 1))
      w2 == FDiv(p.density, Rat(36, 1))
  IN  [idx \in MemDom(p, CellsLen(p, sz)) |->
         IF idx >= 0 /\ (idx \div p.nx) \in 1 .. LocalNy(p, sz)
         THEN [kk \in Speeds |-> IF kk = 0 THEN w0 ELSE IF kk <= 4 THEN w1 ELSE w2]
         ELSE JunkCell(h)]

InitialTmpCells(p, sz, h) == [idx \in MemDom(p, CellsLen(p, sz)) |-> JunkCell(h)]

\* lines 560-567
ZeroMask(p) == [idx \in Allocated(ObstaclesTotalLen(p)) |-> 0]

\* a scan whose range check of y admits params.ny
RECURSIVE ScanObstaclesLax(_, _, _, _)
ScanObstaclesLax(p, file, k, total) ==
  IF k > Len(file) THEN [err |-> "", total |-> total]
  ELSE LET l == file[k]
       IN  IF l.retval # 3
           THEN [err |-> "expected 3 values per line in obstacle file", total |-> total]
           ELSE IF l.xx < 0 \/ l.xx > p.nx - 1
           THEN [err |-> "obstacle x-coord out of range", total |-> total]
           ELSE IF l.yy < 0 \/ l.yy > p.ny
           THEN [err |-> "obstacle y-coord out of range", total |-> total]
           ELSE IF l.blocked # 1
           THEN [err |-> "obstacle blocked value should be 1", total |-> total]
           ELSE ScanObstaclesLax(p, file, k + 1,
                                 [total EXCEPT ![l.xx + l.yy * p.nx] = l.blocked])

\* lines 606-624: the loop over the lines of the obstacle file.  err is the
\* message die is called with, "" if the loop reaches EOF.
RECURSIVE ScanObstacles(_, _, _, _)
ScanObstacles(p, file, k, total) ==
  IF k > Len(file) THEN [err |-> "", total |-> total]
  ELSE LET l == file[k]
       IN  IF l.retval # 3
           THEN [err |-> "expected 3 values per line in obstacle file", total |-> total]
           ELSE IF l.xx < 0 \/ l.xx > p.nx - 1
           THEN [err |-> "obstacle x-coord out of range", total |-> total]
           ELSE IF l.yy < 0 \/ l.yy > p.ny - 1
           THEN [err |-> "obstacle y-coord out of range", total |-> total]
           ELSE IF l.blocked # 1
           THEN [err |-> "obstacle blocked value should be 1", total |-> total]
           ELSE ScanObstacles(p, file, k + 1,
                              [total EXCEPT ![l.xx + l.yy * p.nx] = l.blocked])

\* lines 634-641: local mask = the first local_ny rows of the total mask
LocalObstacles(p, sz, h, total) ==
  [idx \in MemDom(p, ObstaclesLen(p, sz)) |->
     IF idx \in Allocated(ObstaclesLen(p, sz)) THEN total[idx] ELSE h.o]

UnsetObstacles(p, sz, h) == [idx \in MemDom(p, ObstaclesLen(p, sz)) |-> h.o]

\* line 484: maxIters floats, not initialised
AvOfFloat(x) == [nan |-> IsNaN(x), rat |-> x, roots |-> NoRoots, cnt |-> 1]

UnsetAvVels(p, h) == [i \in 0 .. (p.maxIters - 1) |-> AvOfFloat(h.f)]

\* a loop that runs one iteration too many
LoopOrExitOffByOne(p, t) == IF t <= p.maxIters THEN "accelerate_flow" ELSE "write_values"

\* the for statement of line 228
LoopOrExit(p, t) == IF t < p.maxIters THEN "accelerate_flow" ELSE "write_values"

(***************************************************************************)
(* main, lines 143-360, one action per call.                               *)
(***************************************************************************)
NoFile == [writers |-> {}, content |-> <<>>]

Init ==
  /\ size \in Sizes
  /\ paramfile \in ParamFiles(size)
  /\ obstaclefile \in ObstacleFiles(paramfile)
  /\ heap \in HeapFills
  /\ pc = [r \in Ranks |-> "initialise"]
  /\ tt = [r \in Ranks |-> 0]
  /\ cells = [r \in Ranks |-> NULL]
  /\ tmp_cells = [r \in Ranks |-> NULL]
  /\ obstacles_total = [r \in Ranks |-> NULL]
  /\ obstacles = [r \in Ranks |-> NULL]
  /\ av_vels = [r \in Ranks |-> NULL]
  /\ files = [f \in {FINALSTATEFILE, AVVELSFILE} |-> NoFile]
  /\ trace = [r \in Ranks |-> <<>>]

Called(r, name) == trace' = [trace EXCEPT ![r] = Append(@, name)]

\* initialise, lines 362-675 (die, lines 1059-1065, exits the process)
Initialise(r) ==
  /\ pc[r] = "initialise"
  /\ Called(r, "initialise")
  /\ UNCHANGED <<size, paramfile, obstaclefile, heap, tt, files>>
  /\ IF ~paramfile.readable
     THEN /\ pc' = [pc EXCEPT ![r] = "dead"]
          /\ UNCHANGED <<cells, tmp_cells, obstacles_total, obstacles, av_vels>>
     ELSE LET scan == ScanObstacles(params, obstaclefile, 1, ZeroMask(params))
          IN  /\ cells' = [cells EXCEPT ![r] = InitialCells(params, size, heap)]
              /\ tmp_cells' = [tmp_cells EXCEPT ![r] = InitialTmpCells(params, size, heap)]
              /\ av_vels' = [av_vels EXCEPT ![r] = UnsetAvVels(params, heap)]
              /\ obstacles_total' = [obstacles_total EXCEPT ![r] = scan.total]
              /\ IF scan.err # ""
                 THEN /\ pc' = [pc EXCEPT ![r] = "dead"]
                      /\ obstacles' = [obstacles EXCEPT
                                         ![r] = UnsetObstacles(params, size, heap)]
                 ELSE /\ pc' = [pc EXCEPT ![r] = LoopOrExit(params, 0)]
                      /\ obstacles' = [obstacles EXCEPT
                                         ![r] = LocalObstacles(params, size, heap, scan.total)]

\* timestep, lines 677-684: the four calls, in this order
AccelerateFlowStep(r) ==
  /\ pc[r] = "accelerate_flow"
  /\ cells' = [cells EXCEPT ![r] = AccelerateFlow(params, cells[r], obstacles[r])]
  /\ pc' = [pc EXCEPT ![r] = "propagate"]
  /\ Called(r, "accelerate_flow")
  /\ UNCHANGED <<size, paramfile, obstaclefile, heap, tt, tmp_cells, obstacles_total,
                 obstacles, av_vels, files>>

PropagateStep(r) ==
  /\ pc[r] = "propagate"
  /\ tmp_cells' = [tmp_cells EXCEPT ![r] = Propagate(params, cells[r], tmp_cells[r])]
  /\ pc' = [pc EXCEPT ![r] = "rebound"]
  /\ Called(r, "propagate")
  /\ UNCHANGED <<size, paramfile, obstaclefile, heap, tt, cells, obstacles_total,
                 obstacles, av_vels, files>>

ReboundStep(r) ==
  /\ pc[r] = "rebound"
  /\ cells' = [cells EXCEPT ![r] = Rebound(params, cells[r], tmp_cells[r], obstacles[r])]
  /\ pc' = [pc EXCEPT ![r] = "collision"]
  /\ Called(r, "rebound")
  /\ UNCHANGED <<size, paramfile, obstaclefile, heap, tt, tmp_cells, obstacles_total,
                 obstacles, av_vels, files>>

CollisionStep(r) ==
  /\ pc[r] = "collision"
  /\ cells' = [cells EXCEPT ![r] = Collision(params, cells[r], tmp_cells[r], obstacles[r])]
  /\ pc' = [pc EXCEPT ![r] = "av_velocity"]
  /\ Called(r, "collision")
  /\ UNCHANGED <<size, paramfile, obstaclefile, heap, tt, tmp_cells, obstacles_total,
                 obstacles, av_vels, files>>

\* line 292 and the loop increment of line 228
AvVelocityStep(r) ==
  /\ pc[r] = "av_velocity"
  /\ av_vels' = [av_vels EXCEPT ![r][tt[r]] = AvVelocity(params, cells[r], obstacles[r])]
  /\ tt' = [tt EXCEPT ![r] = @ + 1]
  /\ pc' = [pc EXCEPT ![r] = LoopOrExit(params, tt[r] + 1)]
  /\ Called(r, "av_velocity")
  /\ UNCHANGED <<size, paramfile, obstaclefile, heap, cells, tmp_cells, obstacles_total,
                 obstacles, files>>

\* write_values, lines 955-1036, called at line 348 by every rank.  Both files
\* are opened with mode "w" and written; of final_state.dat only the writer
\* is recorded, of av_vels.dat also the values written.
WriteValues(r) ==
  /\ pc[r] = "write_values"
  /\ files' = [files EXCEPT
                 ![FINALSTATEFILE] = [writers |-> @.writers \cup {r}, content |-> <<r>>],
                 ![AVVELSFILE] = [writers |-> @.writers \cup {r}, content |-> av_vels[r]]]
  /\ pc' = [pc EXCEPT ![r] = "finalise"]
  /\ Called(r, "write_values")
  /\ UNCHANGED <<size, paramfile, obstaclefile, heap, tt, cells, tmp_cells,
                 obstacles_total, obstacles, av_vels>>

\* finalise, lines 1038-1057, then MPI_Finalize and return (lines 352-359)
Finalise(r) ==
  /\ pc[r] = "finalise"
  /\ cells' = [cells EXCEPT ![r] = NULL]
  /\ tmp_cells' = [tmp_cells EXCEPT ![r] = NULL]
  /\ obstacles' = [obstacles EXCEPT ![r] = NULL]
  /\ av_vels' = [av_vels EXCEPT ![r] = NULL]
  /\ pc' = [pc EXCEPT ![r] = "done"]
  /\ Called(r, "finalise")
  /\ UNCHANGED <<size, paramfile, obstaclefile, heap, tt, obstacles_total, files>>

RankStep(r) ==
  \/ Initialise(r)
  \/ AccelerateFlowStep(r)
  \/ PropagateStep(r)
  \/ ReboundStep(r)
  \/ CollisionStep(r)
  \/ AvVelocityStep(r)
  \/ WriteValues(r)
  \/ Finalise(r)

(***************************************************************************)
(* Accesses outside an allocation are undefined behaviour.  The model      *)
(* explores two outcomes: the access reaches the memory next to the        *)
(* allocation (the actions above), or the process is killed (Fault).       *)
(***************************************************************************)
InCells(p, sz, idx) == idx \in Allocated(CellsLen(p, sz))

InObstacles(p, sz, idx) == idx \in Allocated(ObstaclesLen(p, sz))

\* the indices a call uses on cells or tmp_cells, and on obstacles
CellAccesses(p, call, obs) ==
  CASE call = "accelerate_flow" -> {idx \in AccelCells(p) : obs[idx] = 0}
    [] call = "propagate"       -> KernelCells(p)
    [] call = "rebound"         -> {idx \in KernelCells(p) : obs[idx] # 0}
    [] call = "collision"       -> {idx \in KernelCells(p) : obs[idx] = 0}
    [] call = "av_velocity"     -> {idx \in KernelCells(p) : obs[idx] = 0}
    [] OTHER                    -> {}

ObstacleAccesses(p, call) ==
  CASE call = "accelerate_flow" -> AccelCells(p)
    [] call \in {"rebound", "collision", "av_velocity"} -> KernelCells(p)
    [] OTHER -> {}

OutOfBounds(p, sz, call, obs) ==
  \/ \E idx \in CellAccesses(p, call, obs) : ~InCells(p, sz, idx)
  \/ \E idx \in ObstacleAccesses(p, call) : ~InObstacles(p, sz, idx)

Fault(r) ==
  /\ pc[r] \in {"accelerate_flow", "propagate", "rebound", "collision", "av_velocity"}
  /\ OutOfBounds(params, size, pc[r], obstacles[r])
  /\ pc' = [pc EXCEPT ![r] = "killed"]
  /\ UNCHANGED <<size, paramfile, obstaclefile, heap, tt, cells, tmp_cells,
                 obstacles_total, obstacles, av_vels, files, trace>>

\* lines 212-213: the ranks above and below rank r in the ring
Up(r) == IF r = MASTER THEN r + size - 1 ELSE r - 1

Dn(r) == (r + 1) % size

Terminated(r) == pc[r] \in {"done", "dead", "killed"}

Next == \E r \in Ranks : RankStep(r) \/ Fault(r)

Spec == Init /\ [][Next]_vars

(***************************************************************************)
(* Operators used to state the properties.                                 *)
(***************************************************************************)
\* rank r stands between two iterations of the loop of main, or after the last
BetweenSteps(r) == pc[r] \in {"accelerate_flow", "write_values"}

\* row jj of a grid, as the sequence of its cells
Row(p, grid, jj) == [ii \in 1 .. p.nx |-> grid[(ii - 1) + jj * p.nx]]

\* timestep, lines 677-684, as a function of the two grids
\* rebound and collision on the grids propagate leaves
AfterPropagate(p, c1, t1, obs) ==
  [cells |-> Collision(p, Rebound(p, c1, t1, obs), t1, obs), tmp_cells |-> t1]

\* propagate and what follows on the grid accelerate_flow leaves
AfterAccelerate(p, c1, tmp, obs) == AfterPropagate(p, c1, Propagate(p, c1, tmp), obs)

Timestep(p, s, obs) == AfterAccelerate(p, AccelerateFlow(p, s.cells, obs), s.tmp_cells, obs)

\* the grids of a run on one rank after t iterations of the loop of main
RECURSIVE SerialState(_, _, _, _)
SerialState(p, h, file, t) ==
  IF t = 0
  THEN [cells |-> InitialCells(p, 1, h), tmp_cells |-> InitialTmpCells(p, 1, h)]
  ELSE Timestep(p, SerialState(p, h, file, t - 1),
                LocalObstacles(p, 1, h, ScanObstacles(p, file, 1, ZeroMask(p)).total))

\* the interior rows of the one-rank run, in order of global row
SerialGrid(t) ==
  LET s == SerialState(params, heap, obstaclefile, t)
  IN  [g \in 0 .. (params.ny - 1) |-> Row(params, s.cells, g + 1)]

\* the interior rows of the ranks, concatenated in rank order
GatheredGrid ==
  LET local_ny == LocalNy(params, size)
  IN  [g \in 0 .. (params.ny - 1) |->
         Row(params, cells[g \div local_ny], (g % local_ny) + 1)]

AllAfterStep(t) == \A r \in Ranks : BetweenSteps(r) /\ tt[r] = t

\* C1: for the same inputs and ny % R = 0, after every timestep the interior
\* rows of the ranks of a run with R > 1, concatenated in rank order, equal
\* the grid of the run with R = 1, cell for cell and population for population.
PeriodicBoundaryEquivalence ==
  \A t \in 0 .. MaxIters :
    (size > 1 /\ params.readable /\ params.ny % size = 0 /\ AllAfterStep(t))
      => GatheredGrid = SerialGrid(t)

\* C2: the substeps of every rank follow the cycle accelerate, halo exchange,
\* propagate, rebound, collide, average: none skipped, repeated or reordered.
SubstepCycle ==
  <<"accelerate_flow", "halo_exchange", "propagate", "rebound", "collision", "av_velocity">>

Substeps(r) == SelectSeq(trace[r], LAMBDA c : c \notin {"initialise", "write_values", "finalise"})

SubstepOrder ==
  \A r \in Ranks :
    \A i \in 1 .. Len(Substeps(r)) : Substeps(r)[i] = SubstepCycle[((i - 1) % 6) + 1]

\* C3: whenever propagate begins on rank r, ghost row 0 of its grid equals
\* row local_ny of the grid of its southern neighbour and ghost row
\* local_ny + 1 equals row 1 of the grid of its northern neighbour.
AtPropagate(r, t) == pc[r] = "propagate" /\ tt[r] = t

HaloConsistency ==
  \A r \in Ranks :
    (/\ pc[r] = "propagate"
     /\ AtPropagate(Dn(r), tt[r])
     /\ AtPropagate(Up(r), tt[r]))
      => LET local_ny == LocalNy(params, size)
         IN  /\ Row(params, cells[r], 0) = Row(params, cells[Dn(r)], local_ny)
             /\ Row(params, cells[r], local_ny + 1) = Row(params, cells[Up(r)], 1)

\* C4: the halo exchange of every step completes: a rank that has finished
\* accelerate_flow stands where the exchange belongs, and it leaves that place
\* for propagate only with both ghost rows of its neighbours received.
HaloReceived(r) ==
  /\ cells[Dn(r)] # NULL /\ cells[Up(r)] # NULL
  /\ LET local_ny == LocalNy(params, size)
     IN  /\ Row(params, cells[r], 0) = Row(params, cells[Dn(r)], local_ny)
         /\ Row(params, cells[r], local_ny + 1) = Row(params, cells[Up(r)], 1)

HaloExchangeCompletes ==
  [][\A r \in Ranks : (pc[r] = "propagate" /\ pc'[r] = "rebound") => HaloReceived(r)]_vars

\* C5: a rank that does not abort executes exactly maxIters timesteps, each
\* followed by exactly one av_velocity, and then write_values and finalise;
\* no rank executes more, and every rank terminates.
LoopCycle == <<"accelerate_flow", "propagate", "rebound", "collision", "av_velocity">>

ExactlyMaxIters ==
  \A r \in Ranks :
    LET steps == Substeps(r)
    IN  /\ \A i \in 1 .. Len(steps) : steps[i] = LoopCycle[((i - 1) % 5) + 1]
        /\ Len(steps) <= 5 * params.maxIters
        /\ pc[r] \in {"write_values", "finalise", "done"} => Len(steps) = 5 * params.maxIters
        /\ pc[r] = "done" => /\ Len(trace[r]) = 5 * params.maxIters + 3
                             /\ trace[r][Len(trace[r])] = "finalise"
                             /\ trace[r][Len(trace[r]) - 1] = "write_values"

\* the number of calls rank r has still to make
Remaining(r) ==
  CASE pc[r] = "initialise"      -> 5 * params.maxIters + 3
    [] pc[r] = "accelerate_flow" -> 5 * (params.maxIters - tt[r]) + 2
    [] pc[r] = "propagate"       -> 5 * (params.maxIters - tt[r]) + 1
    [] pc[r] = "rebound"         -> 5 * (params.maxIters - tt[r])
    [] pc[r] = "collision"       -> 5 * (params.maxIters - tt[r]) - 1
    [] pc[r] = "av_velocity"     -> 5 * (params.maxIters - tt[r]) - 2
    [] pc[r] = "write_values"    -> 2
    [] pc[r] = "finalise"        -> 1
    [] OTHER                     -> 0

\* the calls of main: none of them waits for another rank
Calls ==
  {"initialise", "accelerate_flow", "propagate", "rebound", "collision", "av_velocity",
   "write_values", "finalise"}

\* a rank that has not terminated has a call to make, and every step brings
\* one rank nearer to its end and leaves the others where they are
RunsMaxItersAndTerminates ==
  /\ []ExactlyMaxIters
  /\ [](\A r \in Ranks : Remaining(r) >= 0 /\ (Terminated(r) \/ pc[r] \in Calls))
  /\ [][\E r \in Ranks : /\ Remaining(r)' < Remaining(r)
                         /\ \A q \in Ranks \ {r} : Remaining(q)' = Remaining(q)]_vars

RanAllSteps ==
  \E r \in Ranks : /\ pc[r] = "done"
                   /\ params.maxIters >= 2
                   /\ Len(SelectSeq(trace[r], LAMBDA c : c = "av_velocity")) = params.maxIters

\* C6: on one rank, without obstacles and with accel = 0, the total density
\* after any number of timesteps equals, to rounding, the total density after
\* initialisation.
WithinRounding(x, y) ==
  \/ x = y /\ ~IsNaN(x)
  \/ LET e == FDiv(FSub(x, y), y)
     IN  ~IsNaN(e) /\ Abs(e[1]) * 256 <= e[2]

MassConservation ==
  (size = 1 /\ params.readable /\ params.accel = Zero /\ obstaclefile = <<>>
     /\ BetweenSteps(0))
    => WithinRounding(TotalDensity(params, cells[0]),
                      TotalDensity(params, InitialCells(params, size, heap)))

\* C7: with accel = 0, every cell the kernel processes holds after any number
\* of timesteps the populations it held after initialisation, and every
\* average velocity recorded is 0.
IsZeroAv(a) == ~a.nan /\ a.rat = Zero /\ a.roots = NoRoots

RestStateFixedPoint ==
  \A r \in Ranks :
    (params.readable /\ params.accel = Zero /\ BetweenSteps(r))
      => /\ \A idx \in KernelCells(params) \cap Allocated(CellsLen(params, size)) :
              cells[r][idx] = InitialCells(params, size, heap)[idx]
         /\ \A i \in 0 .. (tt[r] - 1) : IsZeroAv(av_vels[r][i])

\* C8: parameters that violate nx > 0, ny > 0, max_iters > 0, density > 0,
\* accel > 0, 0 < omega < 2 or ny % R = 0 end initialisation in a fatal error:
\* no grid is allocated and no timestep is executed.
InvalidParams(p, sz) ==
  \/ p.nx <= 0 \/ p.ny <= 0 \/ p.maxIters <= 0
  \/ ~FGtZero(p.density) \/ ~FGtZero(p.accel)
  \/ ~FGtZero(p.omega) \/ ~FGtZero(FSub(Two, p.omega))
  \/ p.ny % sz # 0

ParameterValidation ==
  (params.readable /\ InvalidParams(params, size))
    => \A r \in Ranks : /\ pc[r] \in {"initialise", "dead"}
                        /\ cells[r] = NULL /\ tmp_cells[r] = NULL
                        /\ Substeps(r) = <<>>

\* C9: an obstacle file with a triple of fewer than three values, x outside
\* [0, nx), y outside [0, ny) or flag # 1 makes every rank die in initialise,
\* before any timestep; the offending triple is never written into the mask,
\* and the cells no line lists are not obstacles.
BadTriple(p, l) ==
  \/ l.retval < 3
  \/ l.xx < 0 \/ l.xx >= p.nx
  \/ l.yy < 0 \/ l.yy >= p.ny
  \/ l.blocked # 1

HasBadTriple == \E k \in 1 .. Len(obstaclefile) : BadTriple(params, obstaclefile[k])

\* the lines before the first bad one
ReadLines ==
  {k \in 1 .. Len(obstaclefile) :
     \A j \in 1 .. k : ~BadTriple(params, obstaclefile[j])}

Listed(idx) ==
  \E k \in ReadLines : obstaclefile[k].xx + obstaclefile[k].yy * params.nx = idx

ObstacleValidation ==
  \A r \in Ranks :
    (params.readable /\ pc[r] # "initialise")
      => /\ HasBadTriple => pc[r] = "dead" /\ Len(trace[r]) = 1
         /\ DOMAIN obstacles_total[r] = Allocated(ObstaclesTotalLen(params))
         /\ \A idx \in DOMAIN obstacles_total[r] :
              obstacles_total[r][idx] = IF Listed(idx) THEN 1 ELSE 0

\* a job of two ranks, both dead on the line after a good one
JobAborted ==
  /\ params.readable /\ size > 1
  /\ Len(obstaclefile) = 2 /\ ReadLines = {1} /\ BadTriple(params, obstaclefile[2])
  /\ params.maxIters >= 1
  /\ \A r \in Ranks :
       /\ pc[r] = "dead"
       /\ obstacles_total[r][obstaclefile[1].xx + obstaclefile[1].yy * params.nx] = 1

\* C10: with more than one rank, no rank but rank 0 opens or writes
\* final_state.dat or av_vels.dat, and no rank but rank 0 holds the record of
\* the average velocities.
FilesByMasterOnly ==
  size > 1 =>
    \A r \in Ranks \ {MASTER} :
      /\ r \notin files[FINALSTATEFILE].writers
      /\ r \notin files[AVVELSFILE].writers
      /\ av_vels[r] = NULL

\* rank r has returned from initialise and holds its arrays
Initialised(r) ==
  pc[r] \in {"accelerate_flow", "propagate", "rebound", "collision", "av_velocity",
             "write_values", "finalise", "killed"}

\* C11: after initialisation the local mask of every rank r holds, at (i, j)
\* with j in [0, local_ny), the entry (i, r * local_ny + j) of the global
\* mask: the rows of the rank itself and of no other rank.
LocalMaskIsOwnRows ==
  \A r \in Ranks :
    (params.readable /\ Initialised(r))
      => \A ii \in 0 .. (params.nx - 1), jj \in 0 .. (LocalNy(params, size) - 1) :
           obstacles[r][ii + jj * params.nx]
             = obstacles_total[r][ii + (r * LocalNy(params, size) + jj) * params.nx]

\* the row of the slab of rank r that holds global row g (rows 1 .. local_ny
\* of a slab are the global rows r * local_ny .. (r + 1) * local_ny - 1)
SlabRow(p, sz, r, g) == g - r * LocalNy(p, sz) + 1

Owns(p, sz, r, g) == g >= 0 /\ SlabRow(p, sz, r, g) \in 1 .. LocalNy(p, sz)

\* the cells of the slab of rank r that accelerate_flow may change
DrivenCells(p, sz, r) ==
  IF Owns(p, sz, r, p.ny - 2)
  THEN {ii + SlabRow(p, sz, r, p.ny - 2) * p.nx : ii \in 0 .. (p.nx - 1)}
  ELSE {}

\* C12: accelerate_flow changes populations only in the cells of global row
\* ny - 2 and only on the rank whose slab owns that row; every other cell of
\* that rank, ghost rows included, and the whole grid of every other rank are
\* left unchanged.
AccelerateFrame ==
  [][\A r \in Ranks :
       (pc[r] = "accelerate_flow" /\ pc'[r] = "propagate")
         => \A idx \in DOMAIN cells[r] :
              cells'[r][idx] # cells[r][idx] => idx \in DrivenCells(params, size, r)]_vars

\* x > y for two floats (false if either is not a number)
Greater(x, y) == ~IsNaN(x) /\ ~IsNaN(y) /\ x[1] * y[2] > y[1] * x[2]

\* c2 is c with w1 moved from speed 3 to speed 1 and w2 moved from speeds 6
\* and 7 to speeds 5 and 8
Shifted(c, c2, w1, w2) ==
  /\ c2[1] = FAdd(c[1], w1) /\ c2[5] = FAdd(c[5], w2) /\ c2[8] = FAdd(c[8], w2)
  /\ c2[3] = FSub(c[3], w1) /\ c2[6] = FSub(c[6], w2) /\ c2[7] = FSub(c[7], w2)
  /\ c2[0] = c[0] /\ c2[2] = c[2] /\ c2[4] = c[4]

\* what accelerate_flow may do to one cell of the driven row; the sum of the
\* nine populations is compared exactly, or to the rounding of float
GuardedShift(c, c2, blocked, w1, w2, exact) ==
  IF blocked = 0 /\ Greater(c[3], w1) /\ Greater(c[6], w2) /\ Greater(c[7], w2)
  THEN /\ Shifted(c, c2, w1, w2)
       /\ IF exact
          THEN LocalDensity(c2) = LocalDensity(c)
          ELSE WithinRounding(LocalDensity(c2), LocalDensity(c))
       /\ Greater(c2[3], Zero) /\ Greater(c2[6], Zero) /\ Greater(c2[7], Zero)
  ELSE c2 = c

WrapX(p, ii) == (ii + p.nx) % p.nx

\* the populations that stream into cell (ii, jj) of a slab: speed 0 from the
\* cell itself, speeds 1 .. 8 from its W, S, E, N, SW, SE, NE, NW neighbours,
\* columns wrapped, rows jj - 1 and jj + 1 taken as they are
Streamed(p, grid, ii, jj) ==
  [kk \in Speeds |->
     CASE kk = 0 -> grid[ii + jj * p.nx][0]
       [] kk = 1 -> grid[WrapX(p, ii - 1) + jj * p.nx][1]
       [] kk = 2 -> grid[ii + (jj - 1) * p.nx][2]
       [] kk = 3 -> grid[WrapX(p, ii + 1) + jj * p.nx][3]
       [] kk = 4 -> grid[ii + (jj + 1) * p.nx][4]
       [] kk = 5 -> grid[WrapX(p, ii - 1) + (jj - 1) * p.nx][5]
       [] kk = 6 -> grid[WrapX(p, ii + 1) + (jj - 1) * p.nx][6]
       [] kk = 7 -> grid[WrapX(p, ii + 1) + (jj + 1) * p.nx][7]
       [] kk = 8 -> grid[WrapX(p, ii - 1) + (jj + 1) * p.nx][8]]

\* C14: propagate writes exactly the cells (i, j) with j in [1, local_ny] of
\* the scratch grid: speed 0 from the same cell of the primary grid, speeds
\* 1 .. 8 from its W, S, E, N, SW, SE, NE, NW neighbours, columns wrapped
\* modulo nx and rows not wrapped (row 1 reads ghost row 0, row local_ny reads
\* ghost row local_ny + 1); every other cell of the scratch grid is unchanged.
PropagateInterior ==
  [][\A r \in Ranks :
       (pc[r] = "propagate" /\ pc'[r] = "rebound")
         => \A idx \in Allocated(CellsLen(params, size)) :
              tmp_cells'[r][idx]
                = IF (idx \div params.nx) \in 1 .. LocalNy(params, size)
                  THEN Streamed(params, cells[r], idx % params.nx, idx \div params.nx)
                  ELSE tmp_cells[r][idx]]_vars

\* rank r has completed a timestep and not yet begun the next substep
StepDone(r) ==
  \/ pc[r] = "av_velocity"
  \/ pc[r] \in {"accelerate_flow", "write_values", "finalise"} /\ tt[r] >= 1

\* speeds 1 .. 8 of c are the opposite speeds of t (1<->3, 2<->4, 5<->7, 6<->8)
Mirrored(c, t) ==
  /\ c[1] = t[3] /\ c[3] = t[1] /\ c[2] = t[4] /\ c[4] = t[2]
  /\ c[5] = t[7] /\ c[7] = t[5] /\ c[6] = t[8] /\ c[8] = t[6]

\* the entries of the local mask of a rank
MaskCells == Allocated(ObstaclesLen(params, size))

ObstacleRestPopulation ==
  \A r \in Ranks :
    (params.readable /\ Initialised(r))
      => \A idx \in MaskCells :
           obstacles[r][idx] # 0
             => cells[r][idx][0] = FDiv(FMul(params.density, Rat(4, 1)), Rat(9, 1))

\* the rest equilibrium of density rho0
RestCell(rho0) ==
  [kk \in Speeds |->
     IF kk = 0 THEN FDiv(FMul(rho0, Rat(4, 1)), Rat(9, 1))
     ELSE IF kk <= 4 THEN FDiv(rho0, Rat(9, 1)) ELSE FDiv(rho0, Rat(36, 1))]

\* C17: after initialisation every cell of rows 1 .. local_ny of the primary
\* grid of every rank holds the rest equilibrium (speed 0 = density * 4/9,
\* speeds 1-4 = density / 9, speeds 5-8 = density / 36) and every population
\* of ghost rows 0 and local_ny + 1 is zero.
InitialisedGrid ==
  \A r \in Ranks :
    (params.readable /\ Initialised(r) /\ trace[r] = <<"initialise">>)
      => \A idx \in Allocated(CellsLen(params, size)) :
           cells[r][idx] = IF (idx \div params.nx) \in 1 .. LocalNy(params, size)
                           THEN RestCell(params.density)
                           ELSE [kk \in Speeds |-> Zero]

\* the owned interior rows of all ranks as one grid of ny rows: global row g
\* is row (g % local_ny) + 1 of the slab of rank g \div local_ny
GatheredCells ==
  [idx \in 0 .. (params.ny * params.nx - 1) |->
     cells[(idx \div params.nx) \div LocalNy(params, size)]
          [(idx % params.nx)
             + (((idx \div params.nx) % LocalNy(params, size)) + 1) * params.nx]]

\* two averages are the same number
SameAverage(a, b) ==
  \/ a.nan /\ b.nan
  \/ /\ ~a.nan /\ ~b.nan
     /\ \/ a = b
        \/ /\ a.roots = NoRoots /\ b.roots = NoRoots
           /\ FDiv(a.rat, Rat(a.cnt, 1)) = FDiv(b.rat, Rat(b.cnt, 1))

\* C18: for every step tt and every number of ranks the value at index tt of
\* the record of averages is the sum of the velocity magnitudes of all cells
\* of the whole ny x nx grid that are not obstacles (the owned interior rows
\* of all ranks, ghost rows excluded) divided by their number.
GlobalAverage ==
  \A t \in 0 .. (MaxIters - 1) :
    (params.readable /\ params.ny % size = 0 /\ AllAfterStep(t + 1))
      => SameAverage(av_vels[MASTER][t],
                     AvVelocity(params, GatheredCells, obstacles_total[MASTER]))

\* the functions of the kernel that index the arrays of a rank
KernelCalls == {"accelerate_flow", "propagate", "rebound", "collision", "av_velocity"}

\* C19: for more than one rank and ny % R = 0, every index that
\* accelerate_flow, propagate, rebound, collision and av_velocity use on
\* cells, tmp_cells and the local mask lies inside the allocations made by
\* initialise: (local_ny + 2) * nx cells, local_ny * nx flags.
KernelMemorySafety ==
  \A r \in Ranks :
    (size > 1 /\ params.readable /\ params.ny % size = 0 /\ pc[r] \in KernelCalls)
      => /\ \A idx \in CellAccesses(params, pc[r], obstacles[r]) :
              idx \in Allocated(CellsLen(params, size))
         /\ \A idx \in ObstacleAccesses(params, pc[r]) :
              idx \in Allocated(ObstaclesLen(params, size))

\* C20: for every grid height ny >= 1 that the loader accepts, ny = 1
\* included, the driven row ny - 2 of accelerate_flow is a non-negative row of
\* the grid, so that accelerate_flow never reads or writes cells or obstacles
\* at a negative index.
DrivenRowValid ==
  \A r \in Ranks :
    (params.readable /\ params.ny >= 1 /\ pc[r] = "accelerate_flow")
      => /\ AccelRow(params) \in 0 .. (params.ny - 1)
         /\ \A idx \in ObstacleAccesses(params, pc[r]) : idx >= 0
         /\ \A idx \in CellAccesses(params, pc[r], obstacles[r]) : idx >= 0

====
